---- MODULE Spec2Model ----
(***************************************************************************)
(* Model of dashboard/src-tauri/src/lib.rs: the bootstrap routine run() of *)
(* the Coda Dashboard desktop shell.                                       *)
(*                                                                         *)
(* run() builds a default application builder, registers a setup callback, *)
(* hands the builder to the framework (Builder::run) and applies expect to *)
(* the outcome.  The setup callback conditionally attaches the logging     *)
(* plugin (debug builds), issues two Info records and returns Ok.          *)
(*                                                                         *)
(* The application framework is the environment of this code.  What it     *)
(* does is visible in the source only through the interface the code uses: *)
(* it may report an error from Builder::run, it calls the setup callback   *)
(* (an FnOnce) once, plugin attachment returns a Result, and it dispatches *)
(* frontend invocations to the registered invoke handler.  Where the       *)
(* source does not decide the framework's reaction (a setup callback that  *)
(* returned Err) the model takes every outcome the interface allows.       *)
(***************************************************************************)
EXTENDS Naturals, Sequences, FiniteSets, TLC

VARIABLES
  debug_assertions,  \* cfg!(debug_assertions): the build flavour
  version,           \* env!("CARGO_PKG_VERSION"), fixed at compile time
  pc,                \* control position of run() / the setup callback / the framework
  setupHook,         \* TRUE once .setup(..) stored the callback in the builder
  commands,          \* command names the builder's invoke handler answers
  plugins,           \* plugins attached to the app handle, in order
  logger,            \* level filter of the installed log sink, "None" if none
  issued,            \* records issued through log::info!, in order
  delivered,         \* records that reached an installed sink, in order
  setupResult,       \* "none" | "ok" | "err": what the setup callback returned
  runResult,         \* "none" | "ok" | "err": what Builder::run returned
  phase,             \* "Initializing" | "Running" | "Crashed" | "Exited"
  exit,              \* "none" | "returned" | "panic_expect" | "framework_abort"
  diagnostic,        \* panic message of expect, "" if expect did not panic
  invocations,       \* frontend invocations answered so far: <<command, answer>>
  hist               \* history of the steps taken, in order

vars == <<debug_assertions, version, pc, setupHook, commands, plugins, logger,
          issued, delivered, setupResult, runResult, phase, exit, diagnostic,
          invocations, hist>>

-----------------------------------------------------------------------------
(* Bounds and input sets *)

\* Frontend invocations answered in one run of the application.
MaxInvokes == 3

\* Build versions the package metadata may carry.
Versions == {"0.1.0", "1.4.2"}

\* Command names a frontend may try, the placeholder's names among them.
CommandNames == {"command1", "command2", "greet"}

-----------------------------------------------------------------------------
(* Constants of the program *)

STARTUP_MESSAGE == "Coda Dashboard starting up"

EXPECT_MESSAGE == "error while running tauri application"

\* log::LevelFilter, ordered as the log crate orders it.
LevelRank ==
  [Off |-> 0, Error |-> 1, Warn |-> 2, Info |-> 3, Debug |-> 4, Trace |-> 5]

\* Variant: the plugin built with .level(LevelFilter::Warn).
PLUGIN_LEVEL_Warn == "Warn"

\* The filter the logging plugin is built with.
PLUGIN_LEVEL == "Info"

\* A record passes a sink when its level is not above the sink's filter.
LevelEnabled(level, filter) == LevelRank[level] <= LevelRank[filter]

\* format!("Version: {}", v)
FormatVersion(v) == "Version: " \o v

InfoRecord(msg) == [level |-> "Info", message |-> msg]

\* The logging plugin as built by Builder::default().level(..).build()
LogPlugin == [name |-> "log", level |-> PLUGIN_LEVEL]

\* Variant: the registration line active, .invoke_handler(generate_handler![..]).
InvokeHandlerCommands_Registered == {"command1", "command2"}

\* The invoke handler the builder is given: none, the registration line is a
\* comment, so the builder keeps its default handler that answers no command.
InvokeHandlerCommands == {}

-----------------------------------------------------------------------------
(* Helpers over the history *)

Count(ev) == Cardinality({i \in DOMAIN hist : hist[i] = ev})

Happened(ev) == \E i \in DOMAIN hist : hist[i] = ev

Log(ev) == hist' = Append(hist, ev)

\* log::info!(msg): the record is issued; it reaches a sink only if one is
\* installed and lets Info through.
Emit(msg) ==
  /\ issued' = Append(issued, InfoRecord(msg))
  /\ delivered' = IF logger # "None" /\ LevelEnabled("Info", logger)
                  THEN Append(delivered, InfoRecord(msg))
                  ELSE delivered

-----------------------------------------------------------------------------
Init ==
  /\ debug_assertions \in BOOLEAN
  /\ version \in Versions
  /\ pc = "start"
  /\ setupHook = FALSE
  /\ commands = {}
  /\ plugins = <<>>
  /\ logger = "None"
  /\ issued = <<>>
  /\ delivered = <<>>
  /\ setupResult = "none"
  /\ runResult = "none"
  /\ phase = "Initializing"
  /\ exit = "none"
  /\ diagnostic = ""
  /\ invocations = <<>>
  /\ hist = <<>>

-----------------------------------------------------------------------------
(* run(): the builder chain *)

\* tauri::Builder::default()
BuilderDefault ==
  /\ pc = "start"
  /\ pc' = "builder"
  /\ Log("builder_default")
  /\ UNCHANGED <<debug_assertions, version, setupHook, commands, plugins, logger,
                 issued, delivered, setupResult, runResult, phase, exit,
                 diagnostic, invocations>>

\* .setup(|app| { .. }) ; no .invoke_handler(..) follows it
RegisterSetup ==
  /\ pc = "builder"
  /\ pc' = "configured"
  /\ setupHook' = TRUE
  /\ commands' = InvokeHandlerCommands
  /\ Log("setup_registered")
  /\ UNCHANGED <<debug_assertions, version, plugins, logger, issued, delivered,
                 setupResult, runResult, phase, exit, diagnostic, invocations>>

\* .run(tauri::generate_context!()): control passes to the framework
BuilderRun ==
  /\ pc = "configured"
  /\ pc' = "fw_init"
  /\ Log("run_called")
  /\ UNCHANGED <<debug_assertions, version, setupHook, commands, plugins, logger,
                 issued, delivered, setupResult, runResult, phase, exit,
                 diagnostic, invocations>>

-----------------------------------------------------------------------------
(* The framework between Builder::run and the setup callback *)

\* Builder::run fails before the setup callback is reached (the application
\* cannot be built from the context): it returns Err.
FwInitFail ==
  /\ pc = "fw_init"
  /\ runResult' = "err"
  /\ pc' = "expect"
  /\ Log("run_error_init")
  /\ UNCHANGED <<debug_assertions, version, setupHook, commands, plugins, logger,
                 issued, delivered, setupResult, phase, exit, diagnostic,
                 invocations>>

\* The framework calls the stored setup callback.  The callback is an FnOnce:
\* it is consumed by the call.
FwCallSetup ==
  /\ pc = "fw_init"
  /\ setupHook
  /\ setupHook' = FALSE
  /\ pc' = "setup"
  /\ Log("setup_called")
  /\ UNCHANGED <<debug_assertions, version, commands, plugins, logger, issued,
                 delivered, setupResult, runResult, phase, exit, diagnostic,
                 invocations>>

-----------------------------------------------------------------------------
(* The setup callback *)

\* Variant: the plugin attached without the cfg!(debug_assertions) test.
SetupConfigureLogging_NoCfg ==
  /\ pc = "setup"
  /\ \/ /\ plugins' = Append(plugins, LogPlugin)
        /\ logger' = LogPlugin.level
        /\ pc' = "log_startup"
        /\ Log("attach_ok")
        /\ UNCHANGED setupResult
     \/ /\ setupResult' = "err"
        /\ pc' = "fw_setup_err"
        /\ Log("attach_failed")
        /\ UNCHANGED <<plugins, logger>>
  /\ UNCHANGED <<debug_assertions, version, setupHook, commands, issued,
                 delivered, runResult, phase, exit, diagnostic, invocations>>

\* Variant: the attachment's Result dropped (no `?`), the callback goes on.
SetupConfigureLogging_Swallow ==
  /\ pc = "setup"
  /\ \/ /\ debug_assertions
        /\ plugins' = Append(plugins, LogPlugin)
        /\ logger' = LogPlugin.level
        /\ pc' = "log_startup"
        /\ Log("attach_ok")
        /\ UNCHANGED setupResult
     \/ /\ debug_assertions
        /\ pc' = "log_startup"
        /\ Log("attach_failed")
        /\ UNCHANGED <<plugins, logger, setupResult>>
     \/ /\ ~debug_assertions
        /\ pc' = "log_startup"
        /\ Log("logging_skipped")
        /\ UNCHANGED <<plugins, logger, setupResult>>
  /\ UNCHANGED <<debug_assertions, version, setupHook, commands, issued,
                 delivered, runResult, phase, exit, diagnostic, invocations>>

\* Variant: a failed attachment answered with an early `return Ok(())`.
SetupConfigureLogging_OkOnErr ==
  /\ pc = "setup"
  /\ \/ /\ debug_assertions
        /\ plugins' = Append(plugins, LogPlugin)
        /\ logger' = LogPlugin.level
        /\ pc' = "log_startup"
        /\ Log("attach_ok")
        /\ UNCHANGED setupResult
     \/ /\ debug_assertions
        /\ setupResult' = "ok"
        /\ pc' = "fw_setup_ok"
        /\ Log("attach_failed")
        /\ UNCHANGED <<plugins, logger>>
     \/ /\ ~debug_assertions
        /\ pc' = "log_startup"
        /\ Log("logging_skipped")
        /\ UNCHANGED <<plugins, logger, setupResult>>
  /\ UNCHANGED <<debug_assertions, version, setupHook, commands, issued,
                 delivered, runResult, phase, exit, diagnostic, invocations>>

\* if cfg!(debug_assertions) { app.handle().plugin(..)?; }
\* The attachment returns a Result; `?` returns its Err from the callback.
SetupConfigureLogging ==
  /\ pc = "setup"
  /\ \/ /\ debug_assertions
        /\ plugins' = Append(plugins, LogPlugin)
        /\ logger' = LogPlugin.level
        /\ pc' = "log_startup"
        /\ Log("attach_ok")
        /\ UNCHANGED setupResult
     \/ /\ debug_assertions
        /\ setupResult' = "err"
        /\ pc' = "fw_setup_err"
        /\ Log("attach_failed")
        /\ UNCHANGED <<plugins, logger>>
     \/ /\ ~debug_assertions
        /\ pc' = "log_startup"
        /\ Log("logging_skipped")
        /\ UNCHANGED <<plugins, logger, setupResult>>
  /\ UNCHANGED <<debug_assertions, version, setupHook, commands, issued,
                 delivered, runResult, phase, exit, diagnostic, invocations>>

\* Variant: the startup line missing, the callback goes straight to the version.
LogStartup_Silent ==
  /\ pc = "log_startup"
  /\ pc' = "log_version"
  /\ Log("log_startup")
  /\ UNCHANGED <<debug_assertions, version, setupHook, commands, plugins, logger,
                 issued, delivered, setupResult, runResult, phase, exit,
                 diagnostic, invocations>>

\* log::info!("Coda Dashboard starting up");
LogStartup ==
  /\ pc = "log_startup"
  /\ Emit(STARTUP_MESSAGE)
  /\ pc' = "log_version"
  /\ Log("log_startup")
  /\ UNCHANGED <<debug_assertions, version, setupHook, commands, plugins, logger,
                 setupResult, runResult, phase, exit, diagnostic, invocations>>

\* log::info!("Version: {}", env!("CARGO_PKG_VERSION"));
LogVersion ==
  /\ pc = "log_version"
  /\ Emit(FormatVersion(version))
  /\ pc' = "setup_return"
  /\ Log("log_version")
  /\ UNCHANGED <<debug_assertions, version, setupHook, commands, plugins, logger,
                 setupResult, runResult, phase, exit, diagnostic, invocations>>

\* Ok(())
SetupOk ==
  /\ pc = "setup_return"
  /\ setupResult' = "ok"
  /\ pc' = "fw_setup_ok"
  /\ Log("setup_ok")
  /\ UNCHANGED <<debug_assertions, version, setupHook, commands, plugins, logger,
                 issued, delivered, runResult, phase, exit, diagnostic,
                 invocations>>

-----------------------------------------------------------------------------
(* The framework after the setup callback *)

\* Setup returned Err and the framework reports it as the error of
\* Builder::run.
FwSetupFailedReport ==
  /\ pc = "fw_setup_err"
  /\ runResult' = "err"
  /\ pc' = "expect"
  /\ Log("run_error_setup")
  /\ UNCHANGED <<debug_assertions, version, setupHook, commands, plugins, logger,
                 issued, delivered, setupResult, phase, exit, diagnostic,
                 invocations>>

\* Setup returned Err and the framework ends the process itself: Builder::run
\* never returns to run().
FwSetupFailedAbort ==
  /\ pc = "fw_setup_err"
  /\ exit' = "framework_abort"
  /\ phase' = "Crashed"
  /\ pc' = "done"
  /\ Log("framework_abort")
  /\ UNCHANGED <<debug_assertions, version, setupHook, commands, plugins, logger,
                 issued, delivered, setupResult, runResult, diagnostic,
                 invocations>>

\* Setup returned Ok: the application is up and the run loop serves it.
FwEnterRunning ==
  /\ pc = "fw_setup_ok"
  /\ phase' = "Running"
  /\ pc' = "running"
  /\ Log("running")
  /\ UNCHANGED <<debug_assertions, version, setupHook, commands, plugins, logger,
                 issued, delivered, setupResult, runResult, exit, diagnostic,
                 invocations>>

\* The frontend invokes a command; the framework asks the builder's invoke
\* handler, which answers only the commands registered with it.
Invoke(cmd) ==
  /\ pc = "running"
  /\ Len(invocations) < MaxInvokes
  /\ invocations' = Append(invocations,
                       <<cmd, IF cmd \in commands THEN "ok" ELSE "unknown_command">>)
  /\ UNCHANGED <<debug_assertions, version, pc, setupHook, commands, plugins,
                 logger, issued, delivered, setupResult, runResult, phase, exit,
                 diagnostic, hist>>

\* The application shuts down cleanly: Builder::run returns Ok(()).
FwShutdownClean ==
  /\ pc = "running"
  /\ runResult' = "ok"
  /\ pc' = "expect"
  /\ Log("run_ok")
  /\ UNCHANGED <<debug_assertions, version, setupHook, commands, plugins, logger,
                 issued, delivered, setupResult, phase, exit, diagnostic,
                 invocations>>

\* The run loop ends with an error: Builder::run returns Err.
FwRunLoopError ==
  /\ pc = "running"
  /\ runResult' = "err"
  /\ pc' = "expect"
  /\ Log("run_error_loop")
  /\ UNCHANGED <<debug_assertions, version, setupHook, commands, plugins, logger,
                 issued, delivered, setupResult, phase, exit, diagnostic,
                 invocations>>

-----------------------------------------------------------------------------
(* run(): the end of the chain *)

\* Variant: .unwrap() in place of .expect(..): the panic carries no fixed text.
Expect_Unwrap ==
  /\ pc = "expect"
  /\ \/ /\ runResult = "ok"
        /\ exit' = "returned"
        /\ phase' = "Exited"
        /\ Log("returned")
     \/ /\ runResult = "err"
        /\ exit' = "panic_expect"
        /\ phase' = "Crashed"
        /\ Log("panicked")
  /\ pc' = "done"
  /\ UNCHANGED <<debug_assertions, version, setupHook, commands, plugins, logger,
                 issued, delivered, setupResult, runResult, invocations,
                 diagnostic>>

\* Variant: .unwrap_or_default() in place of .expect(..): an Err is dropped
\* and run() returns.
Expect_UnwrapOrDefault ==
  /\ pc = "expect"
  /\ runResult \in {"ok", "err"}
  /\ exit' = "returned"
  /\ phase' = "Exited"
  /\ Log("returned")
  /\ pc' = "done"
  /\ UNCHANGED <<debug_assertions, version, setupHook, commands, plugins, logger,
                 issued, delivered, setupResult, runResult, invocations,
                 diagnostic>>

\* Variant: .expect_err(..) in place of .expect(..): the panic is on Ok.
Expect_ExpectErr ==
  /\ pc = "expect"
  /\ \/ /\ runResult = "err"
        /\ exit' = "returned"
        /\ phase' = "Exited"
        /\ Log("returned")
        /\ UNCHANGED diagnostic
     \/ /\ runResult = "ok"
        /\ exit' = "panic_expect"
        /\ diagnostic' = EXPECT_MESSAGE
        /\ phase' = "Crashed"
        /\ Log("panicked")
  /\ pc' = "done"
  /\ UNCHANGED <<debug_assertions, version, setupHook, commands, plugins, logger,
                 issued, delivered, setupResult, runResult, invocations>>

\* Variant: an Err of Builder::run answered by starting over.
Expect_Retry ==
  /\ pc = "expect"
  /\ \/ /\ runResult = "ok"
        /\ exit' = "returned"
        /\ phase' = "Exited"
        /\ pc' = "done"
        /\ Log("returned")
     \/ /\ runResult = "err"
        /\ phase' = "Initializing"
        /\ pc' = "start"
        /\ Log("retry")
        /\ UNCHANGED exit
  /\ UNCHANGED <<debug_assertions, version, setupHook, commands, plugins, logger,
                 issued, delivered, setupResult, runResult, invocations,
                 diagnostic>>

\* .expect("error while running tauri application"); then run() returns.
Expect ==
  /\ pc = "expect"
  /\ \/ /\ runResult = "ok"
        /\ exit' = "returned"
        /\ phase' = "Exited"
        /\ Log("returned")
        /\ UNCHANGED diagnostic
     \/ /\ runResult = "err"
        /\ exit' = "panic_expect"
        /\ diagnostic' = EXPECT_MESSAGE
        /\ phase' = "Crashed"
        /\ Log("panicked")
  /\ pc' = "done"
  /\ UNCHANGED <<debug_assertions, version, setupHook, commands, plugins, logger,
                 issued, delivered, setupResult, runResult, invocations>>

-----------------------------------------------------------------------------
\* The steps of run(), of the setup callback and of the framework's start and end.
Step ==
  \/ BuilderDefault
  \/ RegisterSetup
  \/ BuilderRun
  \/ FwInitFail
  \/ FwCallSetup
  \/ SetupConfigureLogging
  \/ LogStartup
  \/ LogVersion
  \/ SetupOk
  \/ FwSetupFailedReport
  \/ FwSetupFailedAbort
  \/ FwEnterRunning
  \/ FwShutdownClean
  \/ FwRunLoopError
  \/ Expect

Next ==
  \/ Step
  \/ \E cmd \in CommandNames : Invoke(cmd)

Spec == Init /\ [][Next]_vars

\* The code runs on one thread that is never starved, and the run loop is
\* taken to end eventually, cleanly or with an error.
FairSpec == Spec /\ WF_vars(Step)

-----------------------------------------------------------------------------
(* Properties *)

\* Position of the first occurrence of a step in the history, 0 if none.
FirstAt(ev) ==
  IF Happened(ev) THEN CHOOSE i \in DOMAIN hist :
                          hist[i] = ev /\ \A j \in 1..(i - 1) : hist[j] # ev
  ELSE 0

StartupRecord == [level |-> "Info", message |-> "Coda Dashboard starting up"]

VersionRecord == [level |-> "Info", message |-> "Version: " \o version]

\* C1: a debug build never has more than one logging plugin attached, has
\* exactly one, filtering at Info, once setup has succeeded, and every attached
\* plugin is the Info-level log plugin; a release build has none attached and
\* no sink installed, in every reachable state.
C1_LoggingPlugins ==
  /\ Len(plugins) <= 1
  /\ \A i \in DOMAIN plugins : plugins[i] = [name |-> "log", level |-> "Info"]
  /\ (debug_assertions /\ setupResult = "ok") =>
        (Len(plugins) = 1 /\ logger = "Info")
  /\ ~debug_assertions => (plugins = <<>> /\ logger = "None")

\* A debug build up and running with its plugin attached.
C1_Witness ==
  debug_assertions /\ phase = "Running" /\ Len(plugins) = 1

\* C2 as stated: every startup execution in which the setup callback ran,
\* whether or not the attachment succeeded, has emitted the startup record
\* and then the version record by the time it ends.
C2_Original ==
  (pc = "done" /\ Happened("setup_called")) =>
     issued = <<StartupRecord, VersionRecord>>

\* C2 amended: when the setup callback runs and the attachment does not fail,
\* setup completes having emitted exactly the startup record followed by the
\* version record; a failed attachment leaves both unemitted; and in no state
\* is the version record emitted without the startup record before it.
C2_Amended ==
  /\ setupResult = "ok" => issued = <<StartupRecord, VersionRecord>>
  /\ Happened("attach_failed") => issued = <<>>
  /\ \A i \in DOMAIN issued :
        issued[i] = VersionRecord =>
           \E j \in 1..(i - 1) : issued[j] = StartupRecord
  /\ \A i \in DOMAIN issued : issued[i] \in {StartupRecord, VersionRecord}

\* A debug build whose attachment succeeded and whose setup completed with
\* both records emitted.
C2_Witness ==
  Happened("attach_ok") /\ setupResult = "ok" /\ Len(issued) = 2

\* C3: once the attachment has failed, setup has reported failure and the
\* Running state is neither reached before nor after.
C3_AttachFailureNeverRuns ==
  Happened("attach_failed") =>
     /\ setupResult = "err"
     /\ phase # "Running"
     /\ ~Happened("running")
     /\ ~Happened("run_ok")

\* An execution with a failed attachment that has run to its end.
C3_Witness ==
  Happened("attach_failed") /\ pc = "done"

\* C4: once Builder::run has reported an error the only thing left is the
\* panic of expect: control is at expect or past it, run() has not returned
\* normally, and when it is past it the process has panicked with the fixed
\* text and is Crashed; a normal return happens only on Ok.
C4_RunErrorIsFatal ==
  /\ runResult = "err" =>
        /\ pc \in {"expect", "done"}
        /\ exit \in {"none", "panic_expect"}
        /\ pc = "done" =>
              /\ exit = "panic_expect"
              /\ diagnostic = "error while running tauri application"
              /\ phase = "Crashed"
  /\ exit = "returned" => runResult = "ok"
  /\ diagnostic # "" => exit = "panic_expect"

\* The run loop failed while the application was running and expect panicked.
C4_Witness ==
  Happened("run_error_loop") /\ exit = "panic_expect"

\* C5: the invoke handler answers no command in any reachable state, and
\* every invocation the frontend made was answered "unknown command".
C5_NoCommands ==
  /\ commands = {}
  /\ \A i \in DOMAIN invocations : invocations[i][2] = "unknown_command"

\* The frontend tried the placeholder's names and another one.
C5_Witness ==
  /\ Len(invocations) >= 3
  /\ {invocations[i][1] : i \in DOMAIN invocations} = CommandNames

\* The steps that make up the bootstrap, as opposed to what follows a failure.
BootstrapSteps ==
  {"builder_default", "setup_registered", "run_called", "setup_called",
   "attach_ok", "attach_failed", "logging_skipped", "log_startup",
   "log_version", "setup_ok", "running"}

\* The two failure points: the attachment, and Builder::run reporting an error.
RunErrors == {"run_error_init", "run_error_setup", "run_error_loop"}

FailureSteps == {"attach_failed"} \cup RunErrors

\* C6 as stated: Crashed is entered only by the panic of expect on a run-loop
\* failure, never after a failed setup or attachment, and neither Running nor
\* Crashed is followed by Initializing.
C6_Original ==
  /\ [](phase = "Crashed" =>
          /\ exit = "panic_expect"
          /\ ~Happened("attach_failed")
          /\ setupResult # "err")
  /\ [][(phase \in {"Running", "Crashed"}) => (phase' # "Initializing")]_vars

\* C6 amended: Crashed is entered only by abnormal termination after a
\* failure: by the panic of expect, with the fixed text, when Builder::run
\* reported an error (a run-loop failure, or a setup failure the framework
\* reports through it), or by the framework ending the process after the setup
\* callback failed; Running is left only for Exited or Crashed, Crashed and
\* Exited are never left, and nothing leads back to Initializing.
C6_Amended ==
  /\ [](phase = "Crashed" =>
          \/ /\ exit = "panic_expect"
             /\ runResult = "err"
             /\ \E e \in RunErrors : Happened(e)
          \/ /\ exit = "framework_abort"
             /\ setupResult = "err"
             /\ Happened("attach_failed"))
  /\ [](phase \in {"Initializing", "Running", "Crashed", "Exited"})
  /\ [][/\ (phase \in {"Running", "Crashed", "Exited"}) => (phase' # "Initializing")
        /\ (phase \in {"Crashed", "Exited"}) => (phase' = phase)
        /\ (phase' = "Crashed" /\ phase # "Crashed") =>
              (runResult = "err" \/ setupResult = "err")]_vars

\* The process crashed after a failed attachment.
C6_Witness ==
  phase = "Crashed" /\ Happened("attach_failed")

\* The safety part of C7: run() has not ended while the application runs, a
\* normal return follows a clean shutdown only, the panic with the fixed text
\* follows a run-loop failure only, and an execution that has ended has ended
\* in one of these two ways.
C7_TwoOutcomes ==
  /\ (phase = "Running" /\ runResult = "none") => (pc = "running" /\ exit = "none")
  /\ exit = "returned" =>
        (Happened("run_ok") /\ Happened("running") /\ diagnostic = "")
  /\ exit = "panic_expect" =>
        (Happened("run_error_init") \/ Happened("run_error_loop"))
  /\ pc = "done" => exit \in {"returned", "panic_expect"}

\* C7 as stated: the safety part in every state, and every execution
\* eventually ends.
C7_Original ==
  []C7_TwoOutcomes /\ <>(pc = "done")

\* C7 amended: run() has not ended while the application runs; it returns
\* normally, without diagnostic, only after a clean shutdown of a running
\* application; it panics with the fixed text only when Builder::run reported
\* an error (a run-loop failure, or a setup failure reported through it); the
\* one other end is the framework ending the process itself after the setup
\* callback failed; and every execution eventually ends in one of these ways.
C7_Amended ==
  /\ []((phase = "Running" /\ runResult = "none") =>
           (pc = "running" /\ exit = "none"))
  /\ [](exit = "returned" =>
           /\ runResult = "ok"
           /\ Happened("run_ok") /\ Happened("running")
           /\ diagnostic = "")
  /\ [](exit = "panic_expect" =>
           /\ runResult = "err"
           /\ \E e \in RunErrors : Happened(e)
           /\ diagnostic = "error while running tauri application")
  /\ [](exit = "framework_abort" =>
           (Happened("attach_failed") /\ runResult = "none" /\ diagnostic = ""))
  /\ [](pc = "done" <=> exit \in {"returned", "panic_expect", "framework_abort"})
  /\ <>(pc = "done")

\* run() returned normally after invocations were served and the application
\* shut down cleanly.
C7_Witness ==
  exit = "returned" /\ Len(invocations) > 0

\* C8: after a failed attachment no record has been emitted or delivered,
\* setup has returned Err and never Ok, and no plugin or sink is left.
C8_AttachFailureAborts ==
  Happened("attach_failed") =>
     /\ issued = <<>>
     /\ delivered = <<>>
     /\ ~Happened("log_startup") /\ ~Happened("log_version")
     /\ setupResult = "err"
     /\ ~Happened("setup_ok")
     /\ plugins = <<>>
     /\ logger = "None"

\* The callback has just returned the attachment's error to the framework.
C8_Witness ==
  pc = "fw_setup_err" /\ setupResult = "err" /\ debug_assertions

\* C9: no bootstrap step follows a failure point, and the attachment, the
\* setup callback, the call of Builder::run and the entry into Running each
\* happen at most once.
C9_NoRecovery ==
  /\ \A i, j \in DOMAIN hist :
        (i < j /\ hist[i] \in FailureSteps) => hist[j] \notin BootstrapSteps
  /\ Count("attach_ok") + Count("attach_failed") <= 1
  /\ Count("setup_called") <= 1
  /\ Count("run_called") <= 1
  /\ Count("running") <= 1
  /\ Count("builder_default") <= 1

\* A run-loop failure that ended an application which had come up once.
C9_Witness ==
  Happened("run_error_loop") /\ pc = "done" /\ Count("running") = 1

\* C10: in a debug build every record is issued after the plugin is attached,
\* with the Info sink installed, so each is delivered; Ok is signalled only
\* after the startup record and then the version record were issued; in a
\* release build the records are issued with no sink installed and none is
\* delivered.
C10_SetupOrder ==
  /\ (debug_assertions /\ issued # <<>>) =>
        /\ Happened("attach_ok")
        /\ FirstAt("attach_ok") < FirstAt("log_startup")
        /\ logger = "Info"
        /\ delivered = issued
  /\ Happened("log_version") => FirstAt("log_startup") < FirstAt("log_version")
  /\ Happened("setup_ok") =>
        /\ FirstAt("log_version") < FirstAt("setup_ok")
        /\ issued = <<StartupRecord, VersionRecord>>
  /\ setupResult = "ok" <=> Happened("setup_ok")
  /\ ~debug_assertions => (logger = "None" /\ delivered = <<>>)

\* A debug build whose setup completed with both records delivered to the sink.
C10_Witness ==
  debug_assertions /\ Happened("setup_ok") /\ Len(delivered) = 2

====
